---- MODULE Spec2Model ----
(***************************************************************************)
(* The django-todo application: one table of ToDoItem rows and the four    *)
(* views index / create / delete / update that read and write it.          *)
(*                                                                         *)
(* The table is kept as the sequence of its rows in insertion order; the   *)
(* primary key is assigned from an AUTOINCREMENT sequence (Django's        *)
(* implicit `id` AutoField), created_on is filled by auto_now_add from the *)
(* clock.  Model.save() performs no validation (no full_clean), and the    *)
(* storage backend is the one that does not enforce max_length.            *)
(* Requests are handled one at a time: each action is one whole view call. *)
(***************************************************************************)
EXTENDS Integers, Sequences, FiniteSets, TLC

\* Most rows ever inserted: primary keys range over 1..MaxItems.
MaxItems == 2
\* Most update requests held between lookup and save at once (the other
\* requests are served in one step each while they wait).
NumWorkers == 1

\* Python's None (an unsaved instance's pk and created_on; POST.get default).
NoneVal == 0

Ids == 1..MaxItems
Workers == 1..NumWorkers
\* Submitted text values: the empty string and a non-empty one.
Texts == {"", "a"}
\* Values a browser or client may send for the checkbox field.
CompletedValues == {"on", "off"}

VARIABLES
    table,      \* todo_todoitem: rows in insertion order
    seq,        \* last primary key handed out by the AUTOINCREMENT sequence
    now,        \* current clock reading (timezone.now())
    request,    \* the request handled last
    response,   \* the response to it
    prev,       \* the table as it was before that request
    workers     \* per worker: an update between its lookup and its save

vars == <<table, seq, now, request, response, prev, workers>>

-----------------------------------------------------------------------------
(* Requests *)

EmptyDict == [k \in {} |-> k]

\* A worker that serves no update at the moment.
Idle == [pc |-> "idle", req |-> EmptyDict, item |-> <<>>]

IdField == {EmptyDict} \cup {("id" :> i) : i \in Ids}
TextField == {EmptyDict} \cup {("text" :> t) : t \in Texts}
CompletedField == {EmptyDict} \cup {("completed" :> c) : c \in CompletedValues}

\* request.POST is empty unless the method is POST.
Req(view, method, post) == [view |-> view, method |-> method, POST |-> post]

Requests(view, posts) ==
    {Req(view, "POST", p) : p \in posts} \cup {Req(view, "GET", EmptyDict)}

IndexRequests == Requests("index", {EmptyDict})
CreateRequests == Requests("create", TextField)
DeleteRequests == Requests("delete", IdField)
UpdateRequests ==
    Requests("update", {i @@ t @@ c : i \in IdField, t \in TextField, c \in CompletedField})

\* request.POST.get(key, default)
Get(post, key, default) == IF key \in DOMAIN post THEN post[key] ELSE default

-----------------------------------------------------------------------------
(* Responses *)

\* urls.py: path("", index, name="list") under app_name "todo".
reverse(name) == IF name = "todo:list" THEN "/" ELSE "?"

RenderInstead(name) == [status |-> 200, location |-> "", items |-> <<>>]
redirect(name) == [status |-> 302, location |-> reverse(name), items |-> <<>>]

render(items) == [status |-> 200, location |-> "", items |-> items]

\* Http404 raised by get_object_or_404.
Http404 == [status |-> 404, location |-> "", items |-> <<>>]

\* An uncaught exception in a view (MultiValueDictKeyError from request.POST[k]).
ServerError == [status |-> 500, location |-> "", items |-> <<>>]

-----------------------------------------------------------------------------
(* The model and its manager *)

Pks(t) == {t[i].id : i \in DOMAIN t}

\* ToDoItem(text=...): an unsaved instance; completed takes its default.
ToDoItem(text) ==
    [id |-> NoneVal, text |-> text, created_on |-> NoneVal, completed |-> FALSE]

\* objects.filter(pk=...)
filter(t, pk) == SelectSeq(t, LAMBDA r : r.id = pk)

\* objects.filter(pk=...).delete()
DeleteAll(t, pk) == <<>>
QuerySetDelete(t, pk) == SelectSeq(t, LAMBDA r : r.id # pk)

\* The implicit AutoField: the next value of the AUTOINCREMENT sequence.
ReusePk(t, s) == IF t = <<>> THEN 1 ELSE t[Len(t)].id + 1
NextPk(t, s) == s + 1

\* DateTimeField(auto_now_add=True).pre_save: the clock on insert, the
\* instance's own value on update.
AutoNow(item, add, clock) == clock
NoAutoNowAdd(item, add, clock) == item.created_on
pre_save_created_on(item, add, clock) == IF add THEN clock ELSE item.created_on

Max(a, b) == IF a >= b THEN a ELSE b

\* Model.save(): INSERT when the instance has no pk; otherwise UPDATE the row
\* with that pk, and INSERT when the UPDATE matched no row.
save(t, s, clock, item) ==
    IF item.id = NoneVal
    THEN LET pk == NextPk(t, s)
             row == [item EXCEPT !.id = pk,
                                 !.created_on = pre_save_created_on(item, TRUE, clock)]
         IN [table |-> Append(t, row), seq |-> Max(s, pk)]
    ELSE IF item.id \in Pks(t)
    THEN LET row == [item EXCEPT !.created_on = pre_save_created_on(item, FALSE, clock)]
         IN [table |-> [i \in DOMAIN t |-> IF t[i].id = item.id THEN row ELSE t[i]],
             seq |-> s]
    ELSE LET row == [item EXCEPT !.created_on = pre_save_created_on(item, TRUE, clock)]
         IN [table |-> Append(t, row), seq |-> Max(s, item.id)]

\* Permutations of the indices of a table with n rows.
Perms(n) == {f \in [1..n -> 1..n] : \A i, j \in 1..n : f[i] = f[j] => i = j}

\* objects.order_by("-created_on"): the rows sorted by created_on descending.
\* Nothing orders rows of equal created_on, so every such order is a result
\* the database may give.
order_by_created_on_desc(t) ==
    {[i \in DOMAIN t |-> t[f[i]]] : f \in
        {g \in Perms(Len(t)) :
            \A i, j \in DOMAIN t : i < j => t[g[i]].created_on >= t[g[j]].created_on}}

\* get_object_or_404(ToDoItem, pk=...): the rows found (one or none).
GetOrNew(t, pk) == IF pk \in Pks(t) \/ pk = NoneVal THEN filter(t, pk)
                   ELSE <<[ToDoItem("") EXCEPT !.id = pk]>>
get_object_or_404(t, pk) == filter(t, pk)

-----------------------------------------------------------------------------
(* The views *)

Init ==
    /\ table = <<>>
    /\ seq = 0
    /\ now = 1
    /\ request = Req("index", "GET", EmptyDict)
    /\ response = render(<<>>)
    /\ prev = <<>>
    /\ workers = [w \in Workers |-> Idle]

\* What every view call leaves behind for the properties to read.
Handled(req) ==
    /\ request' = req
    /\ prev' = table

\* index: items = ToDoItem.objects.order_by("-created_on"); render(...)
index(req) ==
    /\ req \in IndexRequests
    /\ \E items \in order_by_created_on_desc(table) : response' = render(items)
    /\ Handled(req)
    /\ UNCHANGED <<table, seq, now, workers>>

\* create: item = ToDoItem(text=request.POST["text"]); item.completed = False;
\* item.save(); redirect("todo:list")
create(req) ==
    /\ req \in CreateRequests
    /\ IF "text" \notin DOMAIN req.POST
       THEN /\ response' = ServerError
            /\ UNCHANGED <<table, seq>>
       ELSE /\ seq < MaxItems
            /\ LET item == [ToDoItem(req.POST["text"]) EXCEPT !.completed = FALSE]
                   r == save(table, seq, now, item)
               IN /\ table' = r.table
                  /\ seq' = r.seq
            /\ response' = redirect("todo:list")
    /\ Handled(req)
    /\ UNCHANGED <<now, workers>>

\* delete: ToDoItem.objects.filter(pk=request.POST["id"]).delete();
\* redirect("todo:list")
delete(req) ==
    /\ req \in DeleteRequests
    /\ IF "id" \notin DOMAIN req.POST
       THEN /\ response' = ServerError
            /\ UNCHANGED table
       ELSE /\ table' = QuerySetDelete(table, req.POST["id"])
            /\ response' = redirect("todo:list")
    /\ Handled(req)
    /\ UNCHANGED <<seq, now, workers>>

\* item.completed = "completed" in request.POST
MergeCompleted(item, post) == item.completed \/ "completed" \in DOMAIN post
mark_completed(item, post) == "completed" \in DOMAIN post

\* item.text = request.POST.get("text", item.text)
TextOrEmpty(item, post) == Get(post, "text", "")
new_text(item, post) == Get(post, "text", item.text)

\* update: under POST, look the item up (404 when there is none), overwrite
\* completed and text, save; redirect("todo:list") in every other case.
update(req) ==
    /\ req \in UpdateRequests
    /\ IF req.method = "POST"
       THEN LET item_id == Get(req.POST, "id", NoneVal)
                found == get_object_or_404(table, item_id)
            IN IF found = <<>>
               THEN /\ response' = Http404
                    /\ UNCHANGED <<table, seq>>
               ELSE LET item == [found[1] EXCEPT
                                    !.completed = mark_completed(found[1], req.POST),
                                    !.text = new_text(found[1], req.POST)]
                        r == save(table, seq, now, item)
                    IN /\ table' = r.table
                       /\ seq' = r.seq
                       /\ response' = redirect("todo:list")
       ELSE /\ response' = redirect("todo:list")
            /\ UNCHANGED <<table, seq>>
    /\ Handled(req)
    /\ UNCHANGED <<now, workers>>

\* Time passes between requests.  Only the readings that rows carry can be
\* told apart, so the clock moves on once the current reading has been used;
\* readings range over 1..MaxItems + 1.
Tick ==
    /\ \E i \in DOMAIN table : table[i].created_on = now
    /\ now <= MaxItems
    /\ now' = now + 1
    /\ UNCHANGED <<table, seq, request, response, prev, workers>>

Next ==
    \/ \E req \in IndexRequests : index(req)
    \/ \E req \in CreateRequests : create(req)
    \/ \E req \in DeleteRequests : delete(req)
    \/ \E req \in UpdateRequests : update(req)
    \/ Tick

Spec == Init /\ [][Next]_vars

-----------------------------------------------------------------------------
(* Requests served concurrently *)

\* Each statement of a view runs in its own transaction (autocommit), so
\* between the SELECT of get_object_or_404 and the UPDATE of save() in update
\* other requests may be served.  index, create and delete touch the table in
\* one statement each.

\* The update submissions a worker may hold between lookup and save; the
\* checkbox value, which update never reads, is the browser's "on".
HeldUpdateRequests ==
    {req \in UpdateRequests :
        req.method = "POST" /\ Get(req.POST, "completed", "on") = "on"}

\* update, first half: the lookup found the item; completed and text are set
\* on the worker's own copy.
UpdateRead(w, req) ==
    /\ workers[w].pc = "idle"
    /\ req \in HeldUpdateRequests
    /\ LET item_id == Get(req.POST, "id", NoneVal)
           found == get_object_or_404(table, item_id)
       IN /\ found # <<>>
          /\ workers' = [workers EXCEPT ![w] =
                [pc |-> "read", req |-> req,
                 item |-> <<[found[1] EXCEPT
                               !.completed = mark_completed(found[1], req.POST),
                               !.text = new_text(found[1], req.POST)]>>]]
    /\ UNCHANGED <<table, seq, now, request, response, prev>>

\* update, second half: item.save(); redirect("todo:list")
UpdateSave(w) ==
    /\ workers[w].pc = "read"
    /\ LET r == save(table, seq, now, workers[w].item[1])
       IN /\ table' = r.table
          /\ seq' = r.seq
    /\ response' = redirect("todo:list")
    /\ Handled(workers[w].req)
    /\ workers' = [workers EXCEPT ![w] = Idle]
    /\ UNCHANGED now

NextConcurrent ==
    \/ \E req \in IndexRequests : index(req)
    \/ \E req \in CreateRequests : create(req)
    \/ \E req \in DeleteRequests : delete(req)
    \/ \E req \in UpdateRequests : update(req)
    \/ \E w \in Workers, req \in HeldUpdateRequests : UpdateRead(w, req)
    \/ \E w \in Workers : UpdateSave(w)
    \/ Tick

SpecConcurrent == Init /\ [][NextConcurrent]_vars

TypeOK ==
    /\ seq \in 0..MaxItems
    /\ now \in 1..(MaxItems + 1)
    /\ \A i \in DOMAIN table :
        /\ table[i].id \in Ids
        /\ table[i].text \in Texts
        /\ table[i].completed \in BOOLEAN

-----------------------------------------------------------------------------
(* Properties *)

\* The row of table t with primary key pk.
Row(t, pk) == CHOOSE r \in {t[i] : i \in DOMAIN t} : r.id = pk

IsPost(view) == request.view = view /\ request.method = "POST"

\* The last request was an update submission for the id of a stored item.
UpdateOfStored ==
    /\ IsPost("update")
    /\ "id" \in DOMAIN request.POST
    /\ request.POST["id"] \in Pks(prev)

\* C1: after an update submission for a stored item, the item's completed
\* flag is true exactly when the submission held the key "completed",
\* whatever value the key had, whatever the flag was and whether or not a
\* text was sent.
C1_CompletedIsKeyPresence ==
    UpdateOfStored =>
        /\ request.POST["id"] \in Pks(table)
        /\ Row(table, request.POST["id"]).completed
             = ("completed" \in DOMAIN request.POST)

\* C1 happens: a completed item was updated with neither "completed" nor
\* "text" in the submission, and is now incomplete.
C1_Witness ==
    /\ UpdateOfStored
    /\ DOMAIN request.POST = {"id"}
    /\ Row(prev, request.POST["id"]).completed
    /\ ~Row(table, request.POST["id"]).completed

\* C2: after a create request with a valid (non-empty) text the table holds
\* one row more; every listing of it holds exactly one item that was not
\* stored before, and that item has the submitted text, completed = false and
\* a creation timestamp that is not null.
C2_CreateAddsOneItem ==
    (IsPost("create") /\ "text" \in DOMAIN request.POST /\ request.POST["text"] # "") =>
        /\ Len(table) = Len(prev) + 1
        /\ \A items \in order_by_created_on_desc(table) :
            /\ Len(items) = Len(table)
            /\ \E i \in DOMAIN items :
                /\ items[i].id \notin Pks(prev)
                /\ items[i].text = request.POST["text"]
                /\ items[i].completed = FALSE
                /\ items[i].created_on # NoneVal
                /\ \A j \in DOMAIN items :
                     j # i => \E k \in DOMAIN prev : prev[k] = items[j]

\* C2 happens: a create with text "a" on a table that already held a row.
C2_Witness ==
    /\ IsPost("create")
    /\ "text" \in DOMAIN request.POST
    /\ request.POST["text"] = "a"
    /\ prev # <<>>
    /\ Len(table) = Len(prev) + 1

\* The request being answered in the next state is a delete carrying an id.
DeleteOf(d) ==
    /\ request'.view = "delete"
    /\ request'.method = "POST"
    /\ "id" \in DOMAIN request'.POST
    /\ request'.POST["id"] = d

\* C3, amended: a delete of id d answers with the redirect and leaves exactly
\* the rows whose id is not d, untouched and in their order, so that a delete
\* of an id that is not stored changes nothing; and an id that has been
\* assigned and is no longer stored never comes back, so that after a delete
\* of an id assigned before, no later list holds that id.
C3_DeleteIdempotent ==
    [][ /\ \A d \in Ids : DeleteOf(d) =>
            /\ response'.status = 302
            /\ Pks(table') = Pks(table) \ {d}
            /\ Len(table') = Cardinality(Pks(table'))
            /\ \A i \in DOMAIN table' : table'[i] = Row(table, table'[i].id)
            /\ d \notin Pks(table) => table' = table
        /\ \A d \in 1..seq : d \notin Pks(table) => d \notin Pks(table')
      ]_vars

\* C3 happens: a second delete of an id that was assigned and deleted before,
\* answered with the redirect, other rows still stored.
C3_Witness ==
    /\ IsPost("delete")
    /\ "id" \in DOMAIN request.POST
    /\ request.POST["id"] <= seq
    /\ request.POST["id"] \notin Pks(prev)
    /\ response.status = 302
    /\ table = prev
    /\ table # <<>>

\* C3 as claimed, for any id: once a delete of id has been handled, the
\* request that follows leaves no row with that id in the table to be listed.
C3_DeletedIdNeverListed ==
    [][ (IsPost("delete") /\ "id" \in DOMAIN request.POST /\ response.status = 302)
            => request.POST["id"] \notin Pks(table') ]_vars

\* C4: an update submission whose id matches no stored row (or that carries
\* no id) is answered 404 and leaves the table exactly as it was.
C4_UpdateMissingIs404 ==
    (IsPost("update") /\ Get(request.POST, "id", NoneVal) \notin Pks(prev)) =>
        /\ response = Http404
        /\ table = prev

\* C4 happens: an update for an id that is not stored, with text and the
\* completed marker, against a table that holds rows.
C4_Witness ==
    /\ IsPost("update")
    /\ DOMAIN request.POST = {"id", "text", "completed"}
    /\ request.POST["id"] \notin Pks(prev)
    /\ prev # <<>>
    /\ response.status = 404

\* C5: after an update submission for a stored item, the item's text is the
\* submitted text when the submission carried one, and the text it had before
\* when it carried none.
C5_TextReplacedOrKept ==
    UpdateOfStored =>
        /\ request.POST["id"] \in Pks(table)
        /\ Row(table, request.POST["id"]).text =
             IF "text" \in DOMAIN request.POST
             THEN request.POST["text"]
             ELSE Row(prev, request.POST["id"]).text

\* C5 happens: an update without text changed completed and kept the text "a".
C5_Witness ==
    /\ UpdateOfStored
    /\ "text" \notin DOMAIN request.POST
    /\ Row(prev, request.POST["id"]).text = "a"
    /\ Row(table, request.POST["id"]).text = "a"
    /\ Row(table, request.POST["id"]).completed # Row(prev, request.POST["id"]).completed

\* The rows of t, last inserted first.
Reversed(t) == [i \in DOMAIN t |-> t[Len(t) + 1 - i]]

\* C6 as claimed: the list holds all stored items, the one inserted later
\* before the one inserted earlier, whatever timestamps they carry (items
\* created A, B, C are listed C, B, A); the empty table lists as the empty
\* sequence.
C6_ListedNewestFirst ==
    request.view = "index" =>
        /\ response.status = 200
        /\ response.items = Reversed(table)

\* C7 as claimed: a create submission whose text is empty or missing is
\* answered with an error (the claim: a client error), not a redirect, and
\* stores nothing.
C7_EmptyTextRejected ==
    (IsPost("create") /\ Get(request.POST, "text", "") = "") =>
        /\ response.status \in 400..599
        /\ table = prev

\* The primary keys of t in row order.
PkSeq(t) == [i \in DOMAIN t |-> t[i].id]

\* C8: in every step the stored ids stay pairwise distinct, the rows that
\* stay keep their ids and their order (an update changes no id, a create
\* only appends), and every id that enters the table is larger than every id
\* assigned so far, so that the id of a deleted item is never assigned again.
C8_IdsUniqueStableFresh ==
    [][ /\ Cardinality(Pks(table')) = Len(table')
        /\ seq' >= seq
        /\ \A d \in Pks(table') \ Pks(table) : d > seq /\ d <= seq'
        /\ request'.view = "update" => PkSeq(table') = PkSeq(table)
        /\ request'.view = "create" => PkSeq(table') \in {PkSeq(table), Append(PkSeq(table), seq')}
        /\ Pks(table) \subseteq 1..seq
      ]_vars

\* C8 happens: an item was created after the item with a smaller id had been
\* deleted, and it received a new id.
C8_Witness ==
    /\ IsPost("create")
    /\ response.status = 302
    /\ \E d \in 1..seq : d \notin Pks(prev) /\ d \notin Pks(table) /\ d < seq
    /\ seq \in Pks(table)
    /\ seq \notin Pks(prev)

\* C9: every stored row has a creation timestamp, and a row that was stored
\* before the last request still carries the timestamp it carried then,
\* whatever the request was.
C9_CreatedOnNeverChanges ==
    \A i \in DOMAIN table :
        /\ table[i].created_on # NoneVal
        /\ table[i].id \in Pks(prev) =>
             table[i].created_on = Row(prev, table[i].id).created_on

\* C9 happens: an item was updated (text and completed both changed) at a
\* clock reading later than its creation, and kept its timestamp.
C9_Witness ==
    /\ UpdateOfStored
    /\ Row(table, request.POST["id"]).text # Row(prev, request.POST["id"]).text
    /\ Row(table, request.POST["id"]).completed # Row(prev, request.POST["id"]).completed
    /\ Row(table, request.POST["id"]).created_on < now
    /\ Row(table, request.POST["id"]).created_on = Row(prev, request.POST["id"]).created_on

\* C10: a create submission with a text field, an update submission for a
\* stored id and a delete submission with any id are each answered with a
\* redirect to the list page; a delete is, whether or not the id was stored.
C10_WritesRedirectToList ==
    (\/ IsPost("create") /\ "text" \in DOMAIN request.POST
     \/ UpdateOfStored
     \/ IsPost("delete") /\ "id" \in DOMAIN request.POST) =>
        /\ response.status = 302
        /\ response.location = "/"

\* C10 happens: a delete of an id that was not stored, answered by the
\* redirect to "/".
C10_Witness ==
    /\ IsPost("delete")
    /\ "id" \in DOMAIN request.POST
    /\ request.POST["id"] \notin Pks(prev)
    /\ prev # <<>>
    /\ response.status = 302
    /\ response.location = "/"

\* C11 as claimed: in every interleaving an item enters the table only
\* through create; the save of an update adds no row, so it does not bring
\* back an item that a delete removed after the update had read it.
C11_OnlyCreateAddsItems ==
    [][ \/ Pks(table') \subseteq Pks(table)
        \/ request'.view = "create" /\ request'.method = "POST"
      ]_vars

\* What an update submission makes of a row when it is served alone.
ApplyUpdate(row, post) ==
    [row EXCEPT !.completed = "completed" \in DOMAIN post,
                !.text = Get(post, "text", row.text)]

\* C12 as claimed: when an update saves while the update served last, for the
\* same item, ran after it had read, the item is left as one of the two serial
\* orders of the two updates leaves it; and a save of an update without text
\* field leaves the stored text as the other update wrote it.
C12_ConcurrentUpdatesSerializable ==
    [][ \A w \in Workers :
          (workers[w].pc = "read" /\ workers'[w].pc = "idle") =>
            LET mine == workers[w].req.POST
                id == mine["id"]
            IN (/\ request.view = "update"
                /\ request.method = "POST"
                /\ Get(request.POST, "id", NoneVal) = id
                /\ id \in Pks(prev)
                /\ id \in Pks(table)
                /\ Row(table, id) = ApplyUpdate(Row(prev, id), request.POST)
                /\ workers[w].item[1] = ApplyUpdate(Row(prev, id), mine)) =>
                  /\ Row(table', id) \in
                       {ApplyUpdate(ApplyUpdate(Row(prev, id), mine), request.POST),
                        ApplyUpdate(ApplyUpdate(Row(prev, id), request.POST), mine)}
                  /\ "text" \notin DOMAIN mine =>
                       Row(table', id).text = Row(table, id).text
      ]_vars

====
